---- MODULE Spec2Model ----
(***************************************************************************)
(* pytograph: mirrors local filesystem changes onto a remote host.         *)
(*                                                                         *)
(* A path is a sequence of one-character strings, so that the length-based *)
(* slicing and the joins of the program are computed character by          *)
(* character.  The main flow (configuration, connection, mapping loop,     *)
(* observer start, wait, stop/join) is one process; the observer started   *)
(* by the main flow is the one background task that calls the handlers.    *)
(* A handler blocks inside each remote call; the remote call then returns  *)
(* or raises.                                                              *)
(***************************************************************************)
EXTENDS Integers, Sequences, FiniteSets, TLC

VARIABLES
  pc,                 \* position of the main flow
  exitStatus,         \* -1 while the process lives, else its exit status
  cfg,                \* the parsed configuration (cfg.* of the program)
  localDirs,          \* the existing directories of the local filesystem
  attempts,           \* the pysftp.Connection attempts made, in order
  prompts,            \* how many times getpass.getpass was called
  sessions,           \* how many pysftp.Connection objects were created
  idx,                \* the mapping loop: number of mappings already visited
  no_valid_mappings,  \* the flag of the mapping loop
  observer,           \* "none", "created", "started", "stopped", "joined"
  watches,            \* what observer.schedule registered, in order
  cur,                \* the handler call the observer is in (or was last in)
  failed,             \* a remote call has raised during the run phase
  escaped,            \* an exception left a handler and reached the observer
  phases,             \* the startup phases concluded so far, each with its outcome
  pathq,              \* a single get_remote_path query (SpecPath)
  rfs                 \* a remote filesystem and transfer_file run on it (SpecIdem)

vars == <<pc, exitStatus, cfg, localDirs, attempts, prompts, sessions, idx,
          no_valid_mappings, observer, watches, cur, failed, escaped, phases,
          pathq, rfs>>

mainVars == <<pc, exitStatus, cfg, localDirs, attempts, prompts, sessions, idx,
              no_valid_mappings, observer, watches, cur, failed, escaped, phases>>

----------------------------------------------------------------------------
(* Bounds *)

MaxMappings == 2

----------------------------------------------------------------------------
(* Strings *)

EndsWith(s, c) == Len(s) > 0 /\ s[Len(s)] = c

StartsWith(s, c) == Len(s) > 0 /\ s[1] = c

\* Python's s[n:]
SliceFrom(s, n) == SubSeq(s, n + 1, Len(s))

\* Python's s[:n]
SliceTo(s, n) == SubSeq(s, 1, n)

\* Python's s.rfind(c) + 1: the 1-based index of the last c, 0 when absent
RFind1(s, c) ==
  LET hits == {i \in 1..Len(s) : s[i] = c}
  IN  IF hits = {} THEN 0 ELSE CHOOSE i \in hits : \A j \in hits : j =< i

\* Python's s.rstrip(c)
RECURSIVE RStrip(_, _)
RStrip(s, c) == IF EndsWith(s, c) THEN RStrip(SliceTo(s, Len(s) - 1), c) ELSE s

AllAre(s, c) == \A i \in 1..Len(s) : s[i] = c

\* posixpath.join(a, b), which os.path.join is on a POSIX host
posixpath_join(a, b) ==
  IF StartsWith(b, "/") THEN b
  ELSE IF a = <<>> \/ EndsWith(a, "/") THEN a \o b
  ELSE a \o <<"/">> \o b

\* os.path.split(p)[0] on a POSIX host
os_path_split_head(p) ==
  LET head == SliceTo(p, RFind1(p, "/"))
  IN  IF head # <<>> /\ ~AllAre(head, "/") THEN RStrip(head, "/") ELSE head

\* os.path.isdir(p): p names an existing directory (trailing separators ignored)
os_path_isdir(p, dirs) ==
  (IF AllAre(p, "/") THEN p ELSE RStrip(p, "/")) \in dirs

----------------------------------------------------------------------------
(* Configuration and local filesystem: the inputs of a run *)

\* os.path.abspath(os.path.expanduser(cfg.local_root_path)), line 203
LocalRoot == <<"/", "r">>

RemoteRoot == <<"/", "s">>

\* the {local, remote} pairs a configuration may list
MappingChoices ==
  { [local |-> <<"a">>, remote |-> <<"x">>],
    [local |-> <<"b", "/">>, remote |-> <<"y">>] }

MappingLists == UNION { [1..n -> MappingChoices] : n \in 0..MaxMappings }

Passwords == {"", "pw"}

Configs ==
  [ remote_password : Passwords,
    local_root_path : {LocalRoot},
    remote_root_path : {RemoteRoot},
    ignore_patterns : {<<"*.swp">>},
    path_mappings : MappingLists ]

\* the value of cfg before Config(config_file) has returned
NoConfig ==
  [ remote_password |-> "", local_root_path |-> <<>>, remote_root_path |-> <<>>,
    ignore_patterns |-> <<>>, path_mappings |-> <<>> ]

\* directories that may exist below the local root
CandidateDirs == { <<"/", "r", "/", "a">>, <<"/", "r", "/", "b">> }

\* names below a watched directory that events are about
RelPaths == { <<"f">>, <<"d", "/", "g">> }

----------------------------------------------------------------------------
(* watchdog events, as the observer hands them to the handler.  Which events *)
(* of a watched tree reach a callback (the ignore patterns, the watched     *)
(* path) is decided by the library classes the handler and the observer are *)
(* built on; the callbacks' events are therefore inputs: on_created is      *)
(* called with a Created event, on_deleted with a Deleted event, and so on, *)
(* each about a path of the watched tree.                                   *)

NoPath == <<>>

Event(cls, src, dest) == [cls |-> cls, src_path |-> src, dest_path |-> dest]

NoEvent == Event("none", NoPath, NoPath)

FilePathsOf(base) == { posixpath_join(base, r) : r \in RelPaths }

\* a directory event may also be about the watched directory itself
DirPathsOf(base) == FilePathsOf(base) \cup {base}

CreatedEvents(base) ==
  { Event("FileCreatedEvent", p, NoPath) : p \in FilePathsOf(base) } \cup
  { Event("DirCreatedEvent", p, NoPath) : p \in DirPathsOf(base) }

ModifiedEvents(base) ==
  { Event("FileModifiedEvent", p, NoPath) : p \in FilePathsOf(base) } \cup
  { Event("DirModifiedEvent", p, NoPath) : p \in DirPathsOf(base) }

DeletedEvents(base) ==
  { Event("FileDeletedEvent", p, NoPath) : p \in FilePathsOf(base) } \cup
  { Event("DirDeletedEvent", p, NoPath) : p \in DirPathsOf(base) }

MovedEvents(base) ==
  { e \in { Event(c, s, d) : c \in {"FileMovedEvent", "DirMovedEvent"},
                             s \in FilePathsOf(base),
                             d \in FilePathsOf(base) } :
      e.src_path # e.dest_path }

----------------------------------------------------------------------------
(* PytoWatchdogHandler: the call each callback makes on its RemoteControl *)

Call(fn, args) == [fn |-> fn, args |-> args]

on_created_inverted(event) ==
  IF event.cls = "DirCreatedEvent"
  THEN << Call("transfer_file", <<event.src_path>>) >>
  ELSE << >>

on_created(event) ==
  IF event.cls = "DirCreatedEvent"
  THEN << >>
  ELSE << Call("transfer_file", <<event.src_path>>) >>

on_deleted(event) == << Call("delete_resource", <<event.src_path>>) >>

on_modified_unchecked(event) == << Call("transfer_file", <<event.src_path>>) >>

on_modified(event) ==
  IF event.cls = "DirModifiedEvent"
  THEN << >>
  ELSE << Call("transfer_file", <<event.src_path>>) >>

on_moved_swapped(event) ==
  << Call("move_resource", <<event.dest_path, event.src_path>>) >>

on_moved(event) == << Call("move_resource", <<event.src_path, event.dest_path>>) >>

\* the debug line of the branch that makes no call
IgnoreLog(event) ==
  IF event.cls = "DirCreatedEvent"
  THEN << [level |-> "debug", text |-> "Ignoring DirCreatedEvent", paths |-> <<>>] >>
  ELSE IF event.cls = "DirModifiedEvent"
  THEN << [level |-> "debug", text |-> "Ignoring DirModifiedEvent", paths |-> <<>>] >>
  ELSE << >>

----------------------------------------------------------------------------
(* RemoteControl *)

\* RemoteControl.__init__: the controller keeps the connection of the one
\* SFTPConnection and the two bases of its mapping
RemoteControl(connection, local_base, remote_base) ==
  [ connection |-> connection, local_base |-> local_base, remote_base |-> remote_base ]

get_remote_path(rc, local_path) ==
  LET remote_relative == SliceFrom(local_path, Len(rc.local_base))
  IN  rc.remote_base \o remote_relative

\* self._connection.execute('<cmd> "<arg>" ...') and self._connection.put(...)
Execute(cmd, args) == [api |-> "execute", cmd |-> cmd, args |-> args]

Put(src, dest) == [api |-> "put", cmd |-> "put", args |-> <<src, dest>>]

Log(level, text, paths) == [level |-> level, text |-> text, paths |-> paths]

transfer_file_put_first(rc, src_path) ==
  LET dest_path == get_remote_path(rc, src_path)
  IN  [ info |-> Log("info", "Copying", <<src_path, dest_path>>),
        try |-> << Put(src_path, dest_path),
                   Execute("mkdir -p", <<os_path_split_head(dest_path)>>) >>,
        caught |-> TRUE,
        except |-> << Log("error", "Caught exception while copying:", <<>>),
                      Log("exception", "traceback", <<>>) >> ]

\* Each operation is: the info line logged before the try block, the remote
\* calls of the try block in order, whether "except Exception" catches what
\* a remote call raises, and what the except block logs.
transfer_file(rc, src_path) ==
  LET dest_path == get_remote_path(rc, src_path)
  IN  [ info |-> Log("info", "Copying", <<src_path, dest_path>>),
        try |-> << Execute("mkdir -p", <<os_path_split_head(dest_path)>>),
                   Put(src_path, dest_path) >>,
        caught |-> TRUE,
        except |-> << Log("error", "Caught exception while copying:", <<>>),
                      Log("exception", "traceback", <<>>) >> ]

delete_resource_uncaught(rc, src_path) ==
  LET dest_path == get_remote_path(rc, src_path)
  IN  [ info |-> Log("info", "Deleting", <<dest_path>>),
        try |-> << Execute("rm -rf", <<dest_path>>) >>,
        caught |-> FALSE,
        except |-> << >> ]

delete_resource_local(rc, src_path) ==
  [ info |-> Log("info", "Deleting", <<get_remote_path(rc, src_path)>>),
    try |-> << Execute("rm -rf", <<src_path>>) >>,
    caught |-> TRUE,
    except |-> << Log("error", "Caught exception while deleting:", <<>>),
                  Log("exception", "traceback", <<>>) >> ]

delete_resource(rc, src_path) ==
  LET dest_path == get_remote_path(rc, src_path)
  IN  [ info |-> Log("info", "Deleting", <<dest_path>>),
        try |-> << Execute("rm -rf", <<dest_path>>) >>,
        caught |-> TRUE,
        except |-> << Log("error", "Caught exception while deleting:", <<>>),
                      Log("exception", "traceback", <<>>) >> ]

\* the log line resolves both paths; the two commands use the arguments as given
move_resource(rc, src_path, dest_path) ==
  [ info |-> Log("info", "Moving",
                 <<get_remote_path(rc, src_path), get_remote_path(rc, dest_path)>>),
    try |-> << Execute("mkdir -p", <<os_path_split_head(dest_path)>>),
               Execute("mv", <<src_path, dest_path>>) >>,
    caught |-> TRUE,
    except |-> << Log("error", "Caught exception while moving:", <<>>),
                  Log("exception", "traceback", <<>>) >> ]

\* the operation a handler's call runs
Operation(rc, call) ==
  CASE call.fn = "transfer_file" -> transfer_file(rc, call.args[1])
    [] call.fn = "delete_resource" -> delete_resource(rc, call.args[1])
    [] call.fn = "move_resource" -> move_resource(rc, call.args[1], call.args[2])

----------------------------------------------------------------------------
(* Main flow: startup *)

sys_exit_message_ok(arg) == IF "code" \in DOMAIN arg THEN arg.code ELSE 0

\* sys.exit(arg): an integer is the status; any other object is printed and
\* the status is 1
sys_exit(arg) == IF "code" \in DOMAIN arg THEN arg.code ELSE 1

\* SFTPConnection.__init__, the except blocks: where the main flow goes when
\* a pysftp.Connection attempt of the given kind raises
connection_failed_no_exit(kind) ==
  IF kind = "key"
  THEN [pc |-> "prompt", exitStatus |-> -1]
  ELSE [pc |-> "init_mappings", exitStatus |-> -1]

connection_failed_retry(kind) == [pc |-> "prompt", exitStatus |-> -1]

connection_failed(kind) ==
  IF kind = "key"
  THEN [pc |-> "prompt", exitStatus |-> -1]
  ELSE [pc |-> "exited", exitStatus |-> sys_exit([code |-> 1])]

\* an entry of the observer: observer.schedule(event_handler, path, recursive)
Watch(event_handler, path, recursive) ==
  [handler |-> event_handler, path |-> path, recursive |-> recursive]

PytoWatchdogHandler(ignore_patterns, remote_control) ==
  [ignore_patterns |-> ignore_patterns, remote_control |-> remote_control]

mapping_iteration_flag_first(c, dirs, connection, mapping, nvm, ws) ==
  LET local_base == posixpath_join(c.local_root_path, mapping.local)
  IN  IF ~os_path_isdir(local_base, dirs)
      THEN [ no_valid_mappings |-> FALSE, watches |-> ws,
             log |-> <<Log("warn", "Invalid path mapping configured", <<local_base>>)>> ]
      ELSE LET remote_base == posixpath_join(c.remote_root_path, mapping.remote)
               remote_control == RemoteControl(connection, local_base, remote_base)
               event_handler == PytoWatchdogHandler(c.ignore_patterns, remote_control)
           IN  [ no_valid_mappings |-> FALSE,
                 watches |-> Append(ws, Watch(event_handler, local_base, TRUE)),
                 log |-> <<Log("info", "Path mapping initializing", <<local_base, remote_base>>)>> ]

mapping_iteration_own_connection(c, dirs, connection, mapping, nvm, ws) ==
  LET local_base == posixpath_join(c.local_root_path, mapping.local)
  IN  IF ~os_path_isdir(local_base, dirs)
      THEN [ no_valid_mappings |-> nvm, watches |-> ws,
             log |-> <<Log("warn", "Invalid path mapping configured", <<local_base>>)>> ]
      ELSE LET remote_base == posixpath_join(c.remote_root_path, mapping.remote)
               remote_control == RemoteControl(connection + Len(ws), local_base, remote_base)
               event_handler == PytoWatchdogHandler(c.ignore_patterns, remote_control)
           IN  [ no_valid_mappings |-> FALSE,
                 watches |-> Append(ws, Watch(event_handler, local_base, TRUE)),
                 log |-> <<Log("info", "Path mapping initializing", <<local_base, remote_base>>)>> ]

mapping_iteration_no_continue(c, dirs, connection, mapping, nvm, ws) ==
  LET local_base == posixpath_join(c.local_root_path, mapping.local)
      remote_base == posixpath_join(c.remote_root_path, mapping.remote)
      remote_control == RemoteControl(connection, local_base, remote_base)
      event_handler == PytoWatchdogHandler(c.ignore_patterns, remote_control)
  IN  [ no_valid_mappings |-> FALSE,
        watches |-> Append(ws, Watch(event_handler, local_base, TRUE)),
        log |-> <<Log("info", "Path mapping initializing", <<local_base, remote_base>>)>> ]

\* one iteration of "for mapping in cfg.path_mappings": the flag, the
\* observer's watches after it, and what it logs
mapping_iteration(c, dirs, connection, mapping, nvm, ws) ==
  LET local_base == posixpath_join(c.local_root_path, mapping.local)
  IN  IF ~os_path_isdir(local_base, dirs)
      THEN [ no_valid_mappings |-> nvm, watches |-> ws,
             log |-> <<Log("warn", "Invalid path mapping configured", <<local_base>>)>> ]
      ELSE LET remote_base == posixpath_join(c.remote_root_path, mapping.remote)
               remote_control == RemoteControl(connection, local_base, remote_base)
               event_handler == PytoWatchdogHandler(c.ignore_patterns, remote_control)
           IN  [ no_valid_mappings |-> FALSE,
                 watches |-> Append(ws, Watch(event_handler, local_base, TRUE)),
                 log |-> <<Log("info", "Path mapping initializing", <<local_base, remote_base>>)>> ]

Idle ==
  [ w |-> 0, event |-> NoEvent, calls |-> <<>>, issued |-> <<>>, log |-> <<>>,
    status |-> "idle", raised |-> FALSE, afterFailure |-> FALSE ]

NoQuery == [sep |-> "/", L |-> <<>>, R |-> <<>>, P |-> <<>>, out |-> <<>>, done |-> FALSE]

NoRun == [n |-> 0]

Init ==
  /\ pc = "open_config"
  /\ exitStatus = -1
  /\ cfg = NoConfig
  /\ localDirs \in SUBSET CandidateDirs
  /\ attempts = <<>>
  /\ prompts = 0
  /\ sessions = 0
  /\ idx = 0
  /\ no_valid_mappings = TRUE
  /\ observer = "none"
  /\ watches = <<>>
  /\ cur = Idle
  /\ failed = FALSE
  /\ escaped = FALSE
  /\ phases = <<>>
  /\ pathq = NoQuery
  /\ rfs = NoRun

Exit(status) ==
  /\ pc' = "exited"
  /\ exitStatus' = status

\* a startup phase and how it ended
Phase(name, ok) == [name |-> name, ok |-> ok]

Concluded(name, ok) == phases' = Append(phases, Phase(name, ok))

\* lines 188-194: config_file = file(args.config_file)
OpenConfig ==
  /\ pc = "open_config"
  /\ \E readable \in BOOLEAN :
       IF readable
       THEN pc' = "parse_config" /\ UNCHANGED exitStatus /\ Concluded("read", TRUE)
       ELSE Exit(sys_exit([code |-> 1])) /\ Concluded("read", FALSE)
  /\ UNCHANGED <<cfg, localDirs, attempts, prompts, sessions, idx, no_valid_mappings,
                 observer, watches, cur, failed, escaped, pathq, rfs>>

\* lines 196-200: cfg = Config(config_file)
ParseConfig ==
  /\ pc = "parse_config"
  /\ \/ \E c \in Configs :
          /\ cfg' = c
          /\ pc' = "check_root"
          /\ Concluded("parse", TRUE)
          /\ UNCHANGED exitStatus
     \/ /\ Exit(sys_exit([code |-> 1]))
        /\ Concluded("parse", FALSE)
        /\ UNCHANGED cfg
  /\ UNCHANGED <<localDirs, attempts, prompts, sessions, idx, no_valid_mappings,
                 observer, watches, cur, failed, escaped, pathq, rfs>>

\* lines 203-208: the local root must be a directory
CheckLocalRoot ==
  /\ pc = "check_root"
  /\ \E isdir \in BOOLEAN :
       IF isdir
       THEN pc' = "connect" /\ UNCHANGED exitStatus /\ Concluded("root", TRUE)
       ELSE Exit(sys_exit([code |-> 1])) /\ Concluded("root", FALSE)
  /\ UNCHANGED <<cfg, localDirs, attempts, prompts, sessions, idx, no_valid_mappings,
                 observer, watches, cur, failed, escaped, pathq, rfs>>

\* one pysftp.Connection(...) attempt of the given kind, which succeeds or raises
Attempt(kind) ==
  /\ attempts' = Append(attempts, kind)
  /\ \E ok \in BOOLEAN :
       IF ok
       THEN /\ sessions' = sessions + 1
            /\ pc' = "init_mappings"
            /\ Concluded("connect", TRUE)
            /\ UNCHANGED exitStatus
       ELSE /\ pc' = connection_failed(kind).pc
            /\ exitStatus' = connection_failed(kind).exitStatus
            /\ IF connection_failed(kind).pc = "prompt"
               THEN UNCHANGED phases
               ELSE Concluded("connect", FALSE)
            /\ UNCHANGED sessions

\* line 211, SFTPConnection.__init__ lines 139-142 and 152-158
Connect ==
  /\ pc = "connect"
  /\ IF cfg.remote_password = "" THEN Attempt("key") ELSE Attempt("password")
  /\ UNCHANGED <<cfg, localDirs, prompts, idx, no_valid_mappings,
                 observer, watches, cur, failed, escaped, pathq, rfs>>

\* SFTPConnection.__init__ lines 143-150: prompt once, one more attempt
PromptAndConnect ==
  /\ pc = "prompt"
  /\ prompts' = prompts + 1
  /\ Attempt("prompted_password")
  /\ UNCHANGED <<cfg, localDirs, idx, no_valid_mappings,
                 observer, watches, cur, failed, escaped, pathq, rfs>>

\* lines 216-218
InitMappings ==
  /\ pc = "init_mappings"
  /\ no_valid_mappings' = TRUE
  /\ observer' = "created"
  /\ idx' = 0
  /\ pc' = "loop"
  /\ UNCHANGED <<exitStatus, cfg, localDirs, attempts, prompts, sessions,
                 watches, cur, failed, escaped, phases, pathq, rfs>>

\* lines 220-242, one iteration
MappingLoop ==
  /\ pc = "loop"
  /\ idx < Len(cfg.path_mappings)
  /\ LET r == mapping_iteration(cfg, localDirs, sessions, cfg.path_mappings[idx + 1],
                                no_valid_mappings, watches)
     IN  /\ no_valid_mappings' = r.no_valid_mappings
         /\ watches' = r.watches
  /\ idx' = idx + 1
  /\ UNCHANGED <<pc, exitStatus, cfg, localDirs, attempts, prompts, sessions,
                 observer, cur, failed, escaped, phases, pathq, rfs>>

\* lines 244-246: sys.exit('Terminating.')
CheckValidMappings ==
  /\ pc = "loop"
  /\ idx = Len(cfg.path_mappings)
  /\ IF no_valid_mappings
     THEN Exit(sys_exit([message |-> "Terminating."])) /\ Concluded("mappings", FALSE)
     ELSE pc' = "start" /\ UNCHANGED exitStatus /\ Concluded("mappings", TRUE)
  /\ UNCHANGED <<cfg, localDirs, attempts, prompts, sessions, idx, no_valid_mappings,
                 observer, watches, cur, failed, escaped, pathq, rfs>>

\* line 249: observer.start()
StartObserver ==
  /\ pc = "start"
  /\ observer' = "started"
  /\ pc' = "wait"
  /\ Concluded("start", TRUE)
  /\ UNCHANGED <<exitStatus, cfg, localDirs, attempts, prompts, sessions, idx,
                 no_valid_mappings, watches, cur, failed, escaped, pathq, rfs>>

\* lines 251-255: KeyboardInterrupt ends the sleep loop; observer.stop()
Interrupt ==
  /\ pc = "wait"
  /\ observer' = "stopped"
  /\ pc' = "join"
  /\ UNCHANGED <<exitStatus, cfg, localDirs, attempts, prompts, sessions, idx,
                 no_valid_mappings, watches, cur, failed, escaped, phases, pathq, rfs>>

join_returns_at_once(handler) == TRUE

\* observer.join(): the observer's thread ends, after stop(), once it is out
\* of the callback it was in
join_returns(handler) == handler.status # "blocked"

\* line 256: observer.join() returns; the script then ends
Join ==
  /\ pc = "join"
  /\ join_returns(cur)
  /\ observer' = "joined"
  /\ Exit(0)
  /\ UNCHANGED <<cfg, localDirs, attempts, prompts, sessions, idx,
                 no_valid_mappings, watches, cur, failed, escaped, phases, pathq, rfs>>

----------------------------------------------------------------------------
(* Run phase: the observer calls the handlers; remote calls return or raise *)

\* the operation the observer is inside of
CurOperation == Operation(watches[cur.w].handler.remote_control, cur.calls[1])

callback_returned_or_not(handler) == handler.status \in {"idle", "returned", "blocked"}

\* A callback runs its operation, remote calls included, before it returns
\* (lines 49-61 are plain calls): the observer is free for the next event
\* only when no callback is open.
callback_returned(handler) == handler.status \in {"idle", "returned"}

\* The observer calls a callback of watch w's handler with event e.  A
\* callback that makes no call returns at once; otherwise the operation logs
\* its info line and blocks in the first remote call of its try block.
Enter(w, e, calls) ==
  /\ observer = "started"
  /\ callback_returned(cur)
  /\ ~escaped
  /\ cur' =
       IF calls = <<>>
       THEN [ w |-> w, event |-> e, calls |-> calls, issued |-> <<>>,
              log |-> IgnoreLog(e), status |-> "returned", raised |-> FALSE,
              afterFailure |-> failed ]
       ELSE LET op == Operation(watches[w].handler.remote_control, calls[1])
            IN  [ w |-> w, event |-> e, calls |-> calls, issued |-> <<op.try[1]>>,
                  log |-> <<op.info>>, status |-> "blocked", raised |-> FALSE,
                  afterFailure |-> failed ]
  /\ UNCHANGED <<pc, exitStatus, cfg, localDirs, attempts, prompts, sessions, idx,
                 no_valid_mappings, observer, watches, failed, escaped, phases, pathq, rfs>>

OnCreated ==
  \E w \in 1..Len(watches) : \E e \in CreatedEvents(watches[w].path) :
    Enter(w, e, on_created(e))

OnDeleted ==
  \E w \in 1..Len(watches) : \E e \in DeletedEvents(watches[w].path) :
    Enter(w, e, on_deleted(e))

OnModified ==
  \E w \in 1..Len(watches) : \E e \in ModifiedEvents(watches[w].path) :
    Enter(w, e, on_modified(e))

OnMoved ==
  \E w \in 1..Len(watches) : \E e \in MovedEvents(watches[w].path) :
    Enter(w, e, on_moved(e))

\* the remote call the operation is blocked in returns: the try block goes on
\* to its next remote call, or the operation and the callback return
RemoteReturns ==
  /\ cur.status = "blocked"
  /\ LET op == CurOperation
         n == Len(cur.issued)
     IN  cur' = IF n < Len(op.try)
                THEN [cur EXCEPT !.issued = Append(@, op.try[n + 1])]
                ELSE [cur EXCEPT !.status = "returned"]
  /\ UNCHANGED <<pc, exitStatus, cfg, localDirs, attempts, prompts, sessions, idx,
                 no_valid_mappings, observer, watches, failed, escaped, phases, pathq, rfs>>

\* the remote call raises: the except block logs and the callback returns;
\* an exception that no except block catches leaves the callback and ends
\* the observer's thread
RemoteRaises ==
  /\ cur.status = "blocked"
  /\ failed' = TRUE
  /\ LET op == CurOperation
     IN  IF op.caught
         THEN /\ cur' = [cur EXCEPT !.log = @ \o op.except, !.status = "returned",
                                   !.raised = TRUE]
              /\ UNCHANGED escaped
         ELSE /\ cur' = [cur EXCEPT !.status = "dead", !.raised = TRUE]
              /\ escaped' = TRUE
  /\ UNCHANGED <<pc, exitStatus, cfg, localDirs, attempts, prompts, sessions, idx,
                 no_valid_mappings, observer, watches, phases, pathq, rfs>>

Next ==
  \/ OpenConfig
  \/ ParseConfig
  \/ CheckLocalRoot
  \/ Connect
  \/ PromptAndConnect
  \/ InitMappings
  \/ MappingLoop
  \/ CheckValidMappings
  \/ StartObserver
  \/ Interrupt
  \/ Join
  \/ OnCreated
  \/ OnDeleted
  \/ OnModified
  \/ OnMoved
  \/ RemoteReturns
  \/ RemoteRaises

Spec == Init /\ [][Next]_vars

\* a remote call in flight ends (it returns or raises), and the main flow,
\* once interrupted, gets out of observer.join() when the thread has ended
SpecLive ==
  Spec /\ WF_vars(RemoteReturns \/ RemoteRaises) /\ WF_vars(Join)

----------------------------------------------------------------------------
(* get_remote_path on its own: one query, on a POSIX or a Windows host *)

PosixLocalBases ==
  { <<"/", "r", "/", "a">>,
    <<"/", "h", "o", "m", "e", "/", "u", "/", "p", "r", "o", "j">> }

WindowsLocalBases ==
  { <<"C", ":", "\\", "r", "\\", "a">>,
    <<"C", ":", "\\", "u", "\\", "p", "r", "o", "j">> }

RemoteBases ==
  { <<"/", "s">>, <<"/", "s", "/", "x">>, <<"/", "s", "r", "v", "/", "p", "r", "o", "j">>,
    <<"/", "s", "r", "v", "/", "p", "r", "o", "j", "/">> }

\* the names from a base down to a file or directory below it
RelNames ==
  { << >>,
    << <<"f">> >>,
    << <<"d">>, <<"g">> >>,
    << <<"s", "r", "c">>, <<"a", ".", "t", "x", "t">> >> }

\* the path of names below base, written with the host's separator
RECURSIVE Below(_, _, _)
Below(base, sep, names) ==
  IF names = <<>> THEN base
  ELSE Below(base \o <<sep>> \o Head(names), sep, Tail(names))

PathQueries ==
  { [sep |-> "/", L |-> l, R |-> r, P |-> Below(l, "/", n), out |-> <<>>, done |-> FALSE] :
      l \in PosixLocalBases, r \in RemoteBases, n \in RelNames } \cup
  { [sep |-> "\\", L |-> l, R |-> r, P |-> Below(l, "\\", n), out |-> <<>>, done |-> FALSE] :
      l \in WindowsLocalBases, r \in RemoteBases, n \in RelNames }

InitPath ==
  /\ pc = "open_config"
  /\ exitStatus = -1
  /\ cfg = NoConfig
  /\ localDirs = {}
  /\ attempts = <<>>
  /\ prompts = 0
  /\ sessions = 0
  /\ idx = 0
  /\ no_valid_mappings = TRUE
  /\ observer = "none"
  /\ watches = <<>>
  /\ cur = Idle
  /\ failed = FALSE
  /\ escaped = FALSE
  /\ phases = <<>>
  /\ pathq \in PathQueries
  /\ rfs = NoRun

\* a RemoteControl of mapping (L, R) resolves P
Resolve ==
  /\ ~pathq.done
  /\ pathq' = [pathq EXCEPT
                 !.out = get_remote_path(RemoteControl(0, pathq.L, pathq.R), pathq.P),
                 !.done = TRUE]
  /\ UNCHANGED <<mainVars, rfs>>

NextPath == Resolve

SpecPath == InitPath /\ [][NextPath]_vars

----------------------------------------------------------------------------
(* transfer_file run on a remote filesystem.  What the remote host does with *)
(* a command is not the program's: "mkdir -p" creates the directory and its  *)
(* missing ancestors and changes nothing that exists, the upload overwrites  *)
(* the destination in full.  A remote call raises only when the filesystem  *)
(* does not allow it.                                                      *)

\* the content of the local file, and what a remote file may hold before
LocalContent == "new"

RemoteKinds == {"none", "dir", "old", "new"}

RemoteRootDir == <<"/">>

\* dest and its ancestors below the root directory
RemoteNodes(dest) ==
  { SliceTo(dest, i - 1) : i \in { j \in 2..Len(dest) : dest[j] = "/" } } \cup {dest}

KindOf(fs, p) ==
  IF p = RemoteRootDir THEN "dir"
  ELSE IF p \in DOMAIN fs THEN fs[p] ELSE "none"

\* whatever exists lies in a directory
ConsistentFs(fs) ==
  \A p \in DOMAIN fs : fs[p] # "none" => KindOf(fs, os_path_split_head(p)) = "dir"

RemoteFilesystems(dest) ==
  { fs \in [RemoteNodes(dest) -> RemoteKinds] : ConsistentFs(fs) }

\* mkdir -p d: [fs, ok]
RECURSIVE mkdir_p_effect(_, _)
mkdir_p_effect(fs, d) ==
  IF KindOf(fs, d) = "dir" THEN [fs |-> fs, ok |-> TRUE]
  ELSE IF KindOf(fs, d) # "none" \/ d \notin DOMAIN fs THEN [fs |-> fs, ok |-> FALSE]
  ELSE LET up == mkdir_p_effect(fs, os_path_split_head(d))
       IN  IF up.ok THEN [fs |-> [up.fs EXCEPT ![d] = "dir"], ok |-> TRUE] ELSE up

put_effect_append(fs, dest, content) ==
  IF KindOf(fs, os_path_split_head(dest)) = "dir" /\ KindOf(fs, dest) # "dir"
  THEN [ fs |-> [fs EXCEPT ![dest] = IF @ = "none" THEN content ELSE "appended"],
         ok |-> TRUE ]
  ELSE [fs |-> fs, ok |-> FALSE]

\* put(src, dest) of a file holding content: [fs, ok]
put_effect(fs, dest, content) ==
  IF KindOf(fs, os_path_split_head(dest)) = "dir" /\ KindOf(fs, dest) # "dir"
  THEN [fs |-> [fs EXCEPT ![dest] = content], ok |-> TRUE]
  ELSE [fs |-> fs, ok |-> FALSE]

\* one remote call of a try block on fs
RemoteEffect(fs, c) ==
  CASE c.cmd = "mkdir -p" -> mkdir_p_effect(fs, c.args[1])
    [] c.cmd = "put" -> put_effect(fs, c.args[2], LocalContent)

\* The try block on fs: the calls in order, ended by the first call that
\* raises.  put raises when it fails; execute raises on a failed command
\* only if strict (the connection library decides).
RECURSIVE RunTry(_, _, _)
RunTry(fs, cmds, strict) ==
  IF cmds = <<>> THEN fs
  ELSE LET r == RemoteEffect(fs, Head(cmds))
           raises == ~r.ok /\ (Head(cmds).api = "put" \/ strict)
       IN  IF raises THEN r.fs ELSE RunTry(r.fs, Tail(cmds), strict)

IdemControllers ==
  { RemoteControl(1, posixpath_join(LocalRoot, m.local),
                     posixpath_join(RemoteRoot, m.remote)) : m \in MappingChoices }

IdemRuns ==
  UNION { UNION { { [ n |-> 0, rc |-> rc, P |-> P, strict |-> strict,
                      start |-> fs, first |-> fs, fs |-> fs ] :
                      fs \in RemoteFilesystems(get_remote_path(rc, P)),
                      strict \in BOOLEAN } :
                  P \in FilePathsOf(rc.local_base) } :
          rc \in IdemControllers }

InitIdem ==
  /\ pc = "open_config"
  /\ exitStatus = -1
  /\ cfg = NoConfig
  /\ localDirs = {}
  /\ attempts = <<>>
  /\ prompts = 0
  /\ sessions = 0
  /\ idx = 0
  /\ no_valid_mappings = TRUE
  /\ observer = "none"
  /\ watches = <<>>
  /\ cur = Idle
  /\ failed = FALSE
  /\ escaped = FALSE
  /\ phases = <<>>
  /\ pathq = NoQuery
  /\ rfs \in IdemRuns

\* transfer_file(P) once more, with the same local file
TransferAgain ==
  /\ rfs.n < 2
  /\ LET after == RunTry(rfs.fs, transfer_file(rfs.rc, rfs.P).try, rfs.strict)
     IN  rfs' = [rfs EXCEPT !.n = @ + 1,
                            !.fs = after,
                            !.first = IF rfs.n = 0 THEN after ELSE @]
  /\ UNCHANGED <<mainVars, pathq>>

NextIdem == TransferAgain

SpecIdem == InitIdem /\ [][NextIdem]_vars

----------------------------------------------------------------------------
(* What the claims speak of *)

CurWatch == watches[cur.w]

\* the remote path of local path p under the mapping of the watch the
\* observer is serving: the remote base, then p without its first
\* len(local base) characters
Resolved(p) ==
  CurWatch.handler.remote_control.remote_base \o SliceFrom(p, Len(CurWatch.path))

IssuedCommands == { cur.issued[i].cmd : i \in 1..Len(cur.issued) }

\* the dispatch table: the one call an event stands for, if any
TableCall(e) ==
  CASE e.cls \in {"FileCreatedEvent", "FileModifiedEvent"} ->
         << Call("transfer_file", <<e.src_path>>) >>
    [] e.cls \in {"FileDeletedEvent", "DirDeletedEvent"} ->
         << Call("delete_resource", <<e.src_path>>) >>
    [] e.cls \in {"FileMovedEvent", "DirMovedEvent"} ->
         << Call("move_resource", <<e.src_path, e.dest_path>>) >>
    [] OTHER -> << >>

\* the commands each kind of call may issue
TableCommands(calls) ==
  IF calls = <<>> THEN {}
  ELSE CASE calls[1].fn = "transfer_file" -> {"mkdir -p", "put"}
         [] calls[1].fn = "delete_resource" -> {"rm -rf"}
         [] calls[1].fn = "move_resource" -> {"mkdir -p", "mv"}

\* the local base of mapping m, a relative name below the local root, is an
\* existing directory
HasLocalDir(m) == RStrip(LocalRoot \o <<"/">> \o m.local, "/") \in localDirs

HasLog(level) == \E i \in 1..Len(cur.log) : cur.log[i].level = level

\* C1: a remote call that raises inside transfer_file, delete_resource or
\* move_resource is caught there and logged (error line and exception), the
\* exception never reaches the observer, the process does not exit because of
\* it, the watches stay scheduled on a running observer, and an event
\* dispatched after a failure makes the call and issues the commands of the
\* dispatch table, as if nothing had failed.
C1_FailureContained ==
  failed =>
    /\ ~escaped
    /\ cur.status # "dead"
    /\ exitStatus \in {-1, 0}
    /\ (exitStatus = 0 => observer = "joined")
    /\ (pc = "wait" => observer = "started")
    /\ watches # <<>>
    /\ Len(watches) = Len(SelectSeq(cfg.path_mappings, HasLocalDir))
    /\ (cur.raised => cur.status = "returned" /\ HasLog("error") /\ HasLog("exception"))
    /\ (cur.afterFailure =>
          /\ cur.calls = TableCall(cur.event)
          /\ IssuedCommands \subseteq TableCommands(cur.calls)
          /\ (cur.calls # <<>> => cur.issued # <<>> /\ HasLog("info")))

\* an event dispatched after an earlier failure has run its whole operation
C1_Witness ==
  /\ failed
  /\ cur.afterFailure
  /\ ~cur.raised
  /\ cur.status = "returned"
  /\ cur.event.cls = "FileModifiedEvent"
  /\ Len(cur.issued) = 2

\* C2: a directory-kind Created or Modified event makes no transfer_file
\* call and no other call, and no remote command is issued for it.
C2_DirEventIgnored ==
  cur.event.cls \in {"DirCreatedEvent", "DirModifiedEvent"} =>
    /\ cur.calls = <<>>
    /\ cur.issued = <<>>
    /\ cur.status = "returned"

C2_Witness ==
  /\ cur.event.cls = "DirModifiedEvent"
  /\ cur.status = "returned"
  /\ cur.event.src_path # CurWatch.path

\* C3: a file-kind Created or Modified event makes exactly one call,
\* transfer_file with the event's own path, and so issues no rm and no mv.
C3_FileEventTransfersOnce ==
  cur.event.cls \in {"FileCreatedEvent", "FileModifiedEvent"} =>
    /\ Len(cur.calls) = 1
    /\ cur.calls[1].fn = "transfer_file"
    /\ cur.calls[1].args = <<cur.event.src_path>>
    /\ IssuedCommands \subseteq {"mkdir -p", "put"}
    /\ Len(cur.issued) =< 2

C3_Witness ==
  /\ cur.event.cls = "FileCreatedEvent"
  /\ cur.status = "returned"
  /\ ~cur.raised
  /\ Len(cur.issued) = 2

\* C4: a Deleted event, file-kind or directory-kind, makes exactly one call,
\* delete_resource with the event's path, which issues exactly one command,
\* rm -rf of the resolved remote path, whatever the kind; no transfer_file
\* and no move_resource.
C4_DeletedDeletesOnce ==
  cur.event.cls \in {"FileDeletedEvent", "DirDeletedEvent"} =>
    /\ Len(cur.calls) = 1
    /\ cur.calls[1].fn = "delete_resource"
    /\ cur.calls[1].args = <<cur.event.src_path>>
    /\ cur.issued = << Execute("rm -rf", <<Resolved(cur.event.src_path)>>) >>

C4_Witness ==
  /\ cur.event.cls = "DirDeletedEvent"
  /\ cur.status = "returned"
  /\ ~cur.raised

\* C5: a Moved event, file-kind or directory-kind, makes exactly one call,
\* move_resource with the event's source path and then its destination
\* path; no transfer_file and no delete_resource.
C5_MovedMovesOnce ==
  cur.event.cls \in {"FileMovedEvent", "DirMovedEvent"} =>
    /\ Len(cur.calls) = 1
    /\ cur.calls[1].fn = "move_resource"
    /\ cur.calls[1].args = <<cur.event.src_path, cur.event.dest_path>>
    /\ IssuedCommands \subseteq {"mkdir -p", "mv"}
    /\ Len(cur.issued) =< 2

C5_Witness ==
  /\ cur.event.cls = "DirMovedEvent"
  /\ cur.status = "returned"
  /\ ~cur.raised
  /\ Len(cur.issued) = 2

\* C6: move_resource acts on resolved remote paths: mkdir -p of the parent
\* of the resolved destination, mv from the resolved source to the resolved
\* destination, the same two paths as in its log line.
C6_MoveUsesResolvedPaths ==
  (cur.calls # <<>> /\ cur.calls[1].fn = "move_resource") =>
    LET rsrc == Resolved(cur.calls[1].args[1])
        rdest == Resolved(cur.calls[1].args[2])
    IN  /\ cur.log[1].paths = <<rsrc, rdest>>
        /\ cur.issued[1] = Execute("mkdir -p", <<os_path_split_head(rdest)>>)
        /\ (Len(cur.issued) = 2 => cur.issued[2] = Execute("mv", <<rsrc, rdest>>))

\* no configured mapping has a local base that is an existing directory
NoMappingValid ==
  \A i \in 1..Len(cfg.path_mappings) : ~HasLocalDir(cfg.path_mappings[i])

\* C8: connected, and no configured mapping (possibly none at all) has an
\* existing directory as local base: the observer is never started, no event
\* is handled, no remote command is issued, and the exit status is 1.
C8_NoValidMappingExits ==
  (sessions > 0 /\ cfg # NoConfig /\ NoMappingValid) =>
    /\ observer \in {"none", "created"}
    /\ pc \notin {"start", "wait", "join"}
    /\ watches = <<>>
    /\ cur = Idle
    /\ (pc = "exited" => exitStatus = 1)

C8_Witness ==
  /\ sessions > 0
  /\ Len(cfg.path_mappings) = 2
  /\ NoMappingValid
  /\ pc = "exited"
  /\ exitStatus = 1

\* C9: nothing is scheduled and the observer is not started before a
\* connection attempt has succeeded; when every attempt fails the process
\* has exit status 1 and no watch was scheduled.
C9_NoWatchBeforeConnection ==
  /\ (watches # <<>> \/ observer \in {"started", "stopped", "joined"}) => sessions > 0
  /\ (attempts # <<>> /\ sessions = 0 /\ pc \notin {"connect", "prompt"}) =>
       /\ pc = "exited"
       /\ exitStatus = 1
       /\ watches = <<>>
       /\ observer = "none"

C9_Witness ==
  /\ attempts = <<"key", "prompted_password">>
  /\ sessions = 0
  /\ pc = "exited"
  /\ exitStatus = 1

\* s with every separator of the local host written as the remote one
RemoteSeparators(sep, s) == [i \in 1..Len(s) |-> IF s[i] = sep THEN "/" ELSE s[i]]

\* C10: for a local path P with prefix L, get_remote_path(P) is R followed by
\* P without its first len(L) characters, written with forward-slash
\* separators.
C10_ResolveRemote ==
  pathq.done =>
    pathq.out = pathq.R \o RemoteSeparators(pathq.sep, SliceFrom(pathq.P, Len(pathq.L)))

\* C11: transfer_file(P) invoked twice in succession, the local file
\* unchanged, leaves the remote filesystem (every file's content, every
\* directory) as the first invocation left it.
C11_TransferIdempotent ==
  rfs.n = 2 => rfs.fs = rfs.first

\* the first invocation created the directories and the file, the second ran
C11_Witness ==
  /\ rfs.n = 2
  /\ rfs.first # rfs.start
  /\ rfs.start[get_remote_path(rfs.rc, rfs.P)] = "old"
  /\ rfs.fs[get_remote_path(rfs.rc, rfs.P)] = LocalContent

\* C12: with a non-empty configured password there is exactly one attempt,
\* with that password, no key attempt and no prompt; with an empty one the
\* key attempt comes first and, only after it failed, one prompt and one
\* attempt with the prompted password.  Never more than two attempts, never
\* more than one session; when the last attempt fails the process exits with
\* a non-zero status.
C12_AuthPolicy ==
  /\ Len(attempts) =< 2
  /\ prompts =< 1
  /\ sessions =< 1
  /\ (attempts # <<>> /\ cfg.remote_password # "") =>
       /\ attempts = <<"password">>
       /\ prompts = 0
  /\ (attempts # <<>> /\ cfg.remote_password = "") =>
       /\ attempts \in {<<"key">>, <<"key", "prompted_password">>}
       /\ prompts = Len(attempts) - 1
  /\ (pc = "prompt") => (attempts = <<"key">> /\ sessions = 0 /\ prompts = 0)
  /\ (pc \in {"init_mappings", "loop", "start", "wait", "join"}) =>
       (sessions = 1 /\ attempts # <<>>)
  /\ (attempts # <<>> /\ sessions = 0 /\ pc \notin {"connect", "prompt"}) =>
       (pc = "exited" /\ exitStatus > 0)

\* the key attempt failed, the prompted password connected
C12_Witness ==
  /\ attempts = <<"key", "prompted_password">>
  /\ prompts = 1
  /\ sessions = 1
  /\ pc = "wait"

\* C13: after an interrupt the main flow stops the observer and then joins
\* it.  A callback that is inside a remote call at that moment goes on to
\* its end: the process does not exit while it is open.  No event is handled
\* once the observer is stopped.  The remote call ending, the process exits,
\* with status 0.
C13_InterruptShutdown ==
  /\ [](observer \in {"stopped", "joined"} => pc \in {"join", "exited"})
  /\ []((pc = "exited" /\ observer = "joined") =>
          (exitStatus = 0 /\ cur.status # "blocked"))
  /\ [][(observer = "stopped" /\ cur.status = "blocked") =>
          (pc' = "join" /\ cur'.w = cur.w /\ cur'.event = cur.event)]_vars
  /\ [][(observer # "started" /\ cur.status # "blocked") => cur' = cur]_vars
  /\ ((pc = "join") ~> (pc = "exited" /\ exitStatus = 0))

\* interrupted while a callback is inside its upload
C13_Witness ==
  /\ pc = "join"
  /\ observer = "stopped"
  /\ cur.status = "blocked"
  /\ Len(cur.issued) = 2

\* the main flow is past the connection
Connected == pc \in {"init_mappings", "loop", "start", "wait", "join"} \/ observer # "none"

\* C14: one remote session per process: there is never more than one, it
\* exists from the connection on, every scheduled mapping's RemoteControl
\* holds that one, and no step after the connection (events, remote calls
\* returning or raising, shutdown) makes another or drops it.
C14_OneSharedSession ==
  /\ [](sessions \in {0, 1})
  /\ [](Connected => sessions = 1)
  /\ [](\A i \in 1..Len(watches) :
          watches[i].handler.remote_control.connection = sessions)
  /\ [][sessions = 1 => sessions' = 1]_vars
  /\ [][Connected =>
          \A i \in 1..Len(watches) :
            /\ i \in 1..Len(watches')
            /\ watches'[i].handler.remote_control.connection =
                 watches[i].handler.remote_control.connection]_vars

\* two mappings are scheduled, and a remote call of the second has failed
C14_Witness ==
  /\ Len(watches) = 2
  /\ observer = "started"
  /\ cur.w = 2
  /\ cur.raised
  /\ watches[1].handler.remote_control.connection = 1
  /\ watches[2].handler.remote_control.connection = 1

\* what the mapping loop schedules for mapping m: a recursive watch on the
\* mapping's local base, with a controller of its own for its two bases
ScheduledFor(m) ==
  LET local_base == posixpath_join(cfg.local_root_path, m.local)
      remote_base == posixpath_join(cfg.remote_root_path, m.remote)
  IN  Watch(PytoWatchdogHandler(cfg.ignore_patterns,
                                RemoteControl(sessions, local_base, remote_base)),
            local_base, TRUE)

\* the watches for the valid ones among the first n configured mappings
ScheduledUpTo(n) ==
  LET valid == SelectSeq(SubSeq(cfg.path_mappings, 1, n), HasLocalDir)
  IN  [i \in 1..Len(valid) |-> ScheduledFor(valid[i])]

\* C15: a mapping whose local base is not a directory is dropped with a
\* warning and schedules nothing; every valid mapping is scheduled once, in
\* its place, recursively, on its own local base with its own controller,
\* wherever the invalid ones are in the list; with one valid mapping or more
\* the main flow goes on to start the observer and does not exit.
C15_InvalidMappingsDiscarded ==
  /\ (pc = "loop") => watches = ScheduledUpTo(idx)
  /\ (pc \in {"start", "wait", "join"} \/ observer \in {"started", "stopped", "joined"}) =>
       /\ watches = ScheduledUpTo(Len(cfg.path_mappings))
       /\ ~NoMappingValid
  /\ (pc = "loop" /\ idx = Len(cfg.path_mappings) /\ ~NoMappingValid) =>
       ~no_valid_mappings
  /\ (pc = "exited" /\ observer = "created") => NoMappingValid
  /\ (pc = "loop") =>
       \A i \in 1..Len(cfg.path_mappings) :
         LET r == mapping_iteration(cfg, localDirs, sessions, cfg.path_mappings[i],
                                    no_valid_mappings, watches)
         IN  IF HasLocalDir(cfg.path_mappings[i])
             THEN /\ r.watches = Append(watches, ScheduledFor(cfg.path_mappings[i]))
                  /\ \A k \in 1..Len(r.log) : r.log[k].level # "warn"
             ELSE /\ r.watches = watches
                  /\ r.no_valid_mappings = no_valid_mappings
                  /\ \E k \in 1..Len(r.log) : r.log[k].level = "warn"

\* an invalid mapping configured before a valid one, and the observer started
\* with the valid one alone
C15_Witness ==
  /\ observer = "started"
  /\ Len(cfg.path_mappings) = 2
  /\ ~HasLocalDir(cfg.path_mappings[1])
  /\ HasLocalDir(cfg.path_mappings[2])
  /\ Len(watches) = 1
  /\ watches[1].path = posixpath_join(cfg.local_root_path, cfg.path_mappings[2].local)

\* the observer is inside, or has last run, a transfer_file call
InTransfer == cur.calls # <<>> /\ cur.calls[1].fn = "transfer_file"

\* C16: in one transfer_file(P) the info line of the action is logged first,
\* the first remote command is mkdir -p of the parent of the resolved remote
\* path, the second is the upload of P to the resolved remote path; the
\* upload is issued only by the mkdir returning; when the mkdir raises the
\* call ends there, with the error and the exception logged, no upload, no
\* second attempt and no command undoing anything.
C16_TransferOrder ==
  /\ [](InTransfer =>
          LET P == cur.calls[1].args[1]
          IN  /\ Len(cur.log) >= 1
              /\ cur.log[1] = Log("info", "Copying", <<P, Resolved(P)>>)
              /\ Len(cur.issued) \in {1, 2}
              /\ cur.issued[1] = Execute("mkdir -p", <<os_path_split_head(Resolved(P))>>)
              /\ Len(cur.issued) = 2 => cur.issued[2] = Put(P, Resolved(P))
              /\ cur.raised =>
                   /\ cur.status = "returned"
                   /\ Len(cur.log) = 3
                   /\ cur.log[2].level = "error"
                   /\ cur.log[3].level = "exception"
              /\ ~cur.raised => Len(cur.log) = 1)
  /\ [][(InTransfer /\ InTransfer' /\ Len(cur.issued) = 1 /\ Len(cur'.issued) = 2) =>
          (cur.status = "blocked" /\ ~cur.raised /\ ~cur'.raised /\ cur'.log = cur.log)]_vars
  /\ [][(InTransfer /\ cur.status = "blocked" /\ cur'.raised) =>
          (cur'.issued = cur.issued /\ cur'.status = "returned")]_vars
  /\ [][(InTransfer /\ cur.status = "returned" /\ cur.raised) =>
          (cur'.status = "blocked" => Len(cur'.log) = 1)]_vars

\* the mkdir -p of a transfer raised: the call has ended without an upload
C16_Witness ==
  /\ InTransfer
  /\ cur.raised
  /\ cur.status = "returned"
  /\ Len(cur.issued) = 1
  /\ cur.issued[1].cmd = "mkdir -p"

\* this step has the observer take up an event: another one than it was
\* serving, or the same one from its first remote call again
TakesUpEvent ==
  \/ cur'.w # cur.w
  \/ cur'.event # cur.event
  \/ Len(cur'.issued) < Len(cur.issued)
  \/ (cur.status = "returned" /\ cur'.status = "blocked")

\* C17: remote calls are made inside the callback of their event and nothing
\* is queued: the observer takes up an event only when no callback is open,
\* a callback that has returned has made all the remote calls of its
\* operation in order or has logged the one that raised, and while a remote
\* call has not returned no event of any watch can be taken up.
C17_SynchronousInOrder ==
  /\ [][TakesUpEvent => cur.status \in {"idle", "returned"}]_vars
  /\ []((cur.status = "returned" /\ cur.calls # <<>>) =>
          IF cur.raised
          THEN HasLog("error") /\ Len(cur.issued) =< Len(CurOperation.try)
          ELSE cur.issued = CurOperation.try)
  /\ [](cur.status = "blocked" =>
          /\ cur.issued = SubSeq(CurOperation.try, 1, Len(cur.issued))
          /\ ~ENABLED (OnCreated \/ OnDeleted \/ OnModified \/ OnMoved))
  /\ [][cur.status = "blocked" =>
          (cur'.w = cur.w /\ cur'.event = cur.event /\ cur'.calls = cur.calls)]_vars

\* a second event of a watch is being served after a first one: its upload
\* is in flight, with the failure of an earlier remote call behind it
C17_Witness ==
  /\ cur.status = "blocked"
  /\ cur.afterFailure
  /\ Len(cur.issued) = 2
  /\ cur.issued[2].cmd = "put"
  /\ observer = "started"

\* the startup phases in the order the main flow has them
PhaseOrder == <<"read", "parse", "root", "connect", "mappings", "start">>

StartupFailed == phases # <<>> /\ ~phases[Len(phases)].ok

\* C19: the startup phases conclude in the one fixed order, none twice; a
\* phase that fails is the last to run, the process has then exited with
\* status 1 and nothing happens after it; no connection attempt is made
\* unless reading, parsing and the local root check succeeded; nothing is
\* scheduled without a connection; the observer runs only after all six
\* phases succeeded.
C19_StartupAllOrNothing ==
  /\ [](/\ Len(phases) =< Len(PhaseOrder)
        /\ \A i \in 1..Len(phases) : phases[i].name = PhaseOrder[i]
        /\ \A i \in 1..(Len(phases) - 1) : phases[i].ok)
  /\ [](StartupFailed =>
          /\ pc = "exited"
          /\ exitStatus = 1
          /\ observer \in {"none", "created"}
          /\ cur = Idle)
  /\ []((pc = "exited" /\ Len(phases) < Len(PhaseOrder)) => StartupFailed)
  /\ [](attempts # <<>> =>
          (Len(phases) >= 3 /\ \A i \in 1..3 : phases[i].ok))
  /\ []((observer # "none" \/ watches # <<>>) =>
          (Len(phases) >= 4 /\ phases[4].ok /\ sessions = 1))
  /\ [](observer \in {"started", "stopped", "joined"} =>
          (Len(phases) = Len(PhaseOrder) /\ \A i \in 1..Len(phases) : phases[i].ok))
  /\ [][StartupFailed => UNCHANGED vars]_vars
  /\ [][phases' # phases =>
          (Len(phases') = Len(phases) + 1 /\ SubSeq(phases', 1, Len(phases)) = phases)]_vars

\* the local root is not a directory: the process has exited with status 1
\* after three phases, and no connection attempt was made
C19_Witness ==
  /\ phases = <<Phase("read", TRUE), Phase("parse", TRUE), Phase("root", FALSE)>>
  /\ pc = "exited"
  /\ exitStatus = 1
  /\ attempts = <<>>
  /\ sessions = 0

\* the directory a base names, without separators at its end
BaseDir(base) == IF AllAre(base, "/") THEN base ELSE RStrip(base, "/")

\* p is a path strictly below the directory of base
StrictlyBelow(p, base) ==
  LET d == BaseDir(base)
  IN  /\ Len(p) > Len(d) + 1
      /\ SliceTo(p, Len(d)) = d
      /\ p[Len(d) + 1] = "/"

\* the remote base, one "/", then p relative to the local base
ContainedPath(p) ==
  LET rc == CurWatch.handler.remote_control
  IN  BaseDir(rc.remote_base) \o <<"/">> \o SliceFrom(p, Len(BaseDir(rc.local_base)) + 1)

\* C20: for an event path P strictly below the local base of its mapping,
\* the remote path that transfer_file and delete_resource act on is the
\* mapping's remote base, exactly one "/", then P relative to the local base
\* (the mkdir -p of a transfer acts on the parent of that path).
C20_ImplicitContainment ==
  (/\ cur.calls # <<>>
   /\ cur.calls[1].fn \in {"transfer_file", "delete_resource"}
   /\ StrictlyBelow(cur.calls[1].args[1], CurWatch.handler.remote_control.local_base)) =>
    LET P == cur.calls[1].args[1]
    IN  IF cur.calls[1].fn = "delete_resource"
        THEN cur.issued[1] = Execute("rm -rf", <<ContainedPath(P)>>)
        ELSE /\ cur.issued[1] = Execute("mkdir -p", <<os_path_split_head(ContainedPath(P))>>)
             /\ Len(cur.issued) = 2 => cur.issued[2] = Put(P, ContainedPath(P))

====
